---- MODULE Spec2Model ----
(***************************************************************************)
(* Model of migrate_assets.py: the path resolver of main(), the guarded    *)
(* delete safe_rmtree(), the migration engine migrate_assets() and the     *)
(* imageset builder create_imageset().                                     *)
(*                                                                         *)
(* Strings are sequences of one-character strings, so that the filename    *)
(* parsing (Path.suffix, Path.stem, str.lower, str.endswith) and Python's  *)
(* ordering of (base_name, ext) tuples are computed, not assumed.  Paths   *)
(* are sequences of components; an absolute path starts with "/".          *)
(*                                                                         *)
(* The filesystem is the environment: the entries of the source directory  *)
(* and the OS calls that fail (faults) are chosen in Init and stay fixed,  *)
(* so that two runs in succession see the same source and the same         *)
(* permissions.  A failing write is modelled as open() raising: the file   *)
(* is left as it was.                                                      *)
(***************************************************************************)
EXTENDS Integers, Sequences, FiniteSets, TLC

(***************************************************************************)
(* Bounds                                                                  *)
(***************************************************************************)
MaxEntries == 3
MaxFaults == 1
MaxRuns == 2

(***************************************************************************)
(* Strings                                                                 *)
(***************************************************************************)
Chars == {".", "2", "3", "@", "B", "G", "N", "P",
          "a", "c", "g", "j", "n", "p", "t", "x"}

\* code points, as Python compares str
Ord == [c \in Chars |->
          CASE c = "." -> 46 [] c = "2" -> 50 [] c = "3" -> 51 [] c = "@" -> 64
            [] c = "B" -> 66 [] c = "G" -> 71 [] c = "N" -> 78 [] c = "P" -> 80
            [] c = "a" -> 97 [] c = "c" -> 99 [] c = "g" -> 103 [] c = "j" -> 106
            [] c = "n" -> 110 [] c = "p" -> 112 [] c = "t" -> 116 [] c = "x" -> 120]

LowerChar(c) ==
    CASE c = "B" -> "b" [] c = "G" -> "g" [] c = "N" -> "n" [] c = "P" -> "p"
      [] OTHER -> c

Lower(s) == [i \in 1..Len(s) |-> LowerChar(s[i])]

EndsWith(s, suf) ==
    /\ Len(suf) <= Len(s)
    /\ SubSeq(s, Len(s) - Len(suf) + 1, Len(s)) = suf

\* str.rfind("."), 1-based, 0 when there is no dot
LastDot(s) ==
    LET dots == {i \in 1..Len(s) : s[i] = "."}
    IN IF dots = {} THEN 0 ELSE CHOOSE i \in dots : \A j \in dots : j <= i

\* pathlib: a leading or a trailing dot does not start a suffix
Suffix(name) ==
    LET i == LastDot(name)
    IN IF 1 < i /\ i < Len(name) THEN SubSeq(name, i, Len(name)) ELSE <<>>

Stem(name) ==
    LET i == LastDot(name)
    IN IF 1 < i /\ i < Len(name) THEN SubSeq(name, 1, i - 1) ELSE name

RECURSIVE StrLess(_, _)
StrLess(s, t) ==
    IF s = <<>> THEN t # <<>>
    ELSE IF t = <<>> THEN FALSE
    ELSE IF s[1] # t[1] THEN Ord[s[1]] < Ord[t[1]]
    ELSE StrLess(Tail(s), Tail(t))

\* Python's ordering of the (base_name, ext) tuples
TupleLess(g, h) ==
    \/ StrLess(g[1], h[1])
    \/ g[1] = h[1] /\ StrLess(g[2], h[2])

\* sorted(..., reverse=True): the largest tuple first
RECURSIVE sorted_reverse(_)
sorted_reverse(S) ==
    IF S = {} THEN <<>>
    ELSE LET m == CHOOSE x \in S : \A y \in S \ {x} : TupleLess(y, x)
         IN <<m>> \o sorted_reverse(S \ {m})

RECURSIVE sorted(_)
sorted(S) ==
    IF S = {} THEN <<>>
    ELSE LET m == CHOOSE x \in S : \A y \in S \ {x} : TupleLess(x, y)
         IN <<m>> \o sorted(S \ {m})

(***************************************************************************)
(* The source directory                                                    *)
(***************************************************************************)
a_png   == <<"a", ".", "p", "n", "g">>
a2x_png == <<"a", "@", "2", "x", ".", "p", "n", "g">>
a3x_png == <<"a", "@", "3", "x", ".", "p", "n", "g">>
a_jpg   == <<"a", ".", "j", "p", "g">>
B_PNG   == <<"B", ".", "P", "N", "G">>
c_txt   == <<"c", ".", "t", "x", "t">>

Names == {a_png, a2x_png, a3x_png, a_jpg, B_PNG, c_txt}

\* "file": a readable regular file; "noread": a regular file whose copy
\* fails; "dir": a subdirectory (copying it raises IsADirectoryError)
Kinds == {"file", "noread", "dir"}

image_extensions == {<<".", "p", "n", "g">>, <<".", "j", "p", "g">>,
                     <<".", "j", "p", "e", "g">>}

scales == << <<"1", "x">>, <<"2", "x">>, <<"3", "x">> >>

NoFilename == <<>>

(***************************************************************************)
(* Paths                                                                   *)
(***************************************************************************)
Cwd == <<"/", "proj">>

get_project_root == <<"/", "proj">>

get_default_paths ==
    << get_project_root \o <<"Sources", "ClaudeUsagePro", "Assets">>,
       get_project_root \o <<"Sources", "ClaudeUsagePro", "Assets.xcassets">> >>

\* Path(s): the empty string becomes the path "."
Path(s) == IF s = <<>> THEN <<".">> ELSE s

\* bool(path): pathlib defines neither __bool__ nor __len__
PathTruthy(p) == TRUE

PyOr(p, q) == IF PathTruthy(p) THEN p ELSE q

RECURSIVE Normalize(_, _)
Normalize(acc, rest) ==
    IF rest = <<>> THEN acc
    ELSE IF rest[1] = "." THEN Normalize(acc, Tail(rest))
    ELSE IF rest[1] = ".."
         THEN Normalize(IF Len(acc) > 1 THEN SubSeq(acc, 1, Len(acc) - 1) ELSE acc,
                        Tail(rest))
    ELSE Normalize(Append(acc, rest[1]), Tail(rest))

\* Path.resolve(): absolute, without "." and ".." segments
Resolve(p) ==
    IF p # <<>> /\ p[1] = "/" THEN Normalize(<<"/">>, Tail(p))
    ELSE Normalize(Cwd, p)

RECURSIVE CommonPath(_, _)
CommonPath(p, q) ==
    IF p = <<>> \/ q = <<>> \/ p[1] # q[1] THEN <<>>
    ELSE <<p[1]>> \o CommonPath(Tail(p), Tail(q))

SourcePath == <<"/", "data", "img">>

DestPaths == { <<"/">>,
               <<".">>,
               <<"/", "tmp", "out">>,
               <<"/", "proj", "Sources", "..", "out">>,
               <<"/", "proj", "Sources">>,
               <<"/", "proj", "Sources", "ClaudeUsagePro", "Assets.xcassets">> }

\* paths that exist on every filesystem the program runs on
AlwaysExists(p) == Resolve(p) = <<"/">> \/ Resolve(p) = Cwd

(***************************************************************************)
(* Command line and environment                                            *)
(***************************************************************************)
EnvNames == {"ASSET_SOURCE_DIR", "ASSET_DEST_DIR"}

PathPool == { <<"/", "x">>, <<"/", "y">>, <<"z">> }

EnvValues == PathPool \cup { <<>> }

environ_get(env, key, default) == IF key \in DOMAIN env THEN env[key] ELSE default

(***************************************************************************)
(* State                                                                   *)
(***************************************************************************)
VARIABLES argv, environ, source_dir, dest_dir,
          srcKind, src, faults, tree, tree0,
          pc, base_names, todo, all_success, result, exit_code, log,
          run, prev

vars == <<argv, environ, source_dir, dest_dir, srcKind, src, faults, tree, tree0,
          pc, base_names, todo, all_success, result, exit_code, log, run, prev>>

envVars == <<argv, environ, source_dir, dest_dir, srcKind, src, faults>>

NoTree == [exists |-> FALSE, stale |-> FALSE, root |-> FALSE, sets |-> <<>>]

EmptyDir == [exists |-> TRUE, stale |-> FALSE, root |-> FALSE, sets |-> <<>>]

\* a destination left by somebody else, with content of its own
StaleTree == [exists |-> TRUE, stale |-> TRUE, root |-> FALSE, sets |-> <<>>]

Bases == {<<"a">>, <<"B">>}

FaultIds == { <<op, <<>> >> : op \in {"rmtree", "makedirs", "root_json", "listdir"} }
            \cup { <<op, b>> : op \in {"mkdir", "manifest"}, b \in Bases }

SrcKindOf(name) == IF name \in Names THEN src[name] ELSE "absent"

\* Path.exists() of an entry of the source directory
exists(name) == SrcKindOf(name) # "absent"

\* shutil.copy2 succeeds on a readable regular file
copy2(name) == SrcKindOf(name) = "file"

Event(op, group, ok, images) == [op |-> op, group |-> group, ok |-> ok, images |-> images]

NoGroup == <<>>

(***************************************************************************)
(* main(): the path resolver                                               *)
(***************************************************************************)
\* one of the two paths: the environment value or the default, then the
\* positional argument when argv has it (position 1 is sys.argv[1])
ResolvePath(args, env, key, position, default) ==
    LET fromEnv == PyOr(Path(environ_get(env, key, <<>>)), default)
    IN IF Len(args) >= position THEN Path(args[position]) ELSE fromEnv

Main ==
    /\ pc = "main"
    /\ source_dir' = ResolvePath(argv, environ, "ASSET_SOURCE_DIR", 1, get_default_paths[1])
    /\ dest_dir' = ResolvePath(argv, environ, "ASSET_DEST_DIR", 2, get_default_paths[2])
    /\ pc' = "resolved"
    /\ UNCHANGED <<argv, environ, srcKind, src, faults, tree, tree0, base_names, todo,
                   all_success, result, exit_code, log, run, prev>>

(***************************************************************************)
(* safe_rmtree(): the guard                                                *)
(***************************************************************************)
\* the guard without the check against the expected parent
safe_rmtree_guard_root_only(path, expected_parent) ==
    LET path_str == Resolve(path)
    IN path_str # <<>> /\ path_str # <<"/">>

\* TRUE when the safety checks let the removal go ahead
safe_rmtree_guard(path, expected_parent) ==
    LET path_str == Resolve(path)
        expected_str == Resolve(expected_parent)
    IN /\ path_str # <<>>
       /\ path_str # <<"/">>
       /\ CommonPath(expected_str, path_str) = expected_str

expected_parent == get_project_root \o <<"Sources">>

(***************************************************************************)
(* create_imageset()                                                       *)
(***************************************************************************)
imageset_dir(base_name) == base_name \o <<".imageset">>

variant_name(base_name, ext, scale) ==
    IF scale = <<"1", "x">> THEN base_name \o ext
    ELSE base_name \o <<"@", scale[1], "x">> \o ext

\* the filename recorded before the copy is attempted
image_entry_before_copy(base_name, ext, scale) ==
    LET v == variant_name(base_name, ext, scale)
    IN [idiom |-> "universal", scale |-> scale,
        filename |-> IF exists(v) THEN v ELSE NoFilename]

\* the entry of one scale: the filename is set after a copy that succeeded
image_entry(base_name, ext, scale) ==
    LET v == variant_name(base_name, ext, scale)
    IN [idiom |-> "universal", scale |-> scale,
        filename |-> IF exists(v) /\ copy2(v) THEN v ELSE NoFilename]

\* the files that the loop over the scales copies into the imageset
copied_files(base_name, ext) ==
    { variant_name(base_name, ext, scales[i]) : i \in 1..Len(scales) }
        \cap { v \in Names : exists(v) /\ copy2(v) }

\* a builder that reports a failed copy as a failure of the group
create_imageset_strict(sets, base_name, ext) ==
    LET d == imageset_dir(base_name)
        made == IF d \in DOMAIN sets THEN sets
                ELSE (d :> [manifest |-> <<>>, files |-> {}]) @@ sets
        images_array == [i \in 1..Len(scales) |-> image_entry(base_name, ext, scales[i])]
        filled == [made EXCEPT ![d].files = @ \cup copied_files(base_name, ext)]
        degraded == \E i \in 1..Len(scales) :
                        LET v == variant_name(base_name, ext, scales[i])
                        IN exists(v) /\ ~copy2(v)
    IN IF <<"mkdir", base_name>> \in faults
       THEN [ok |-> FALSE, sets |-> sets, images |-> <<>>]
       ELSE IF <<"manifest", base_name>> \in faults
       THEN [ok |-> FALSE, sets |-> filled, images |-> <<>>]
       ELSE [ok |-> ~degraded, sets |-> [filled EXCEPT ![d].manifest = images_array],
             images |-> images_array]

\* the result and the imagesets of the destination after the call
create_imageset(sets, base_name, ext) ==
    LET d == imageset_dir(base_name)
        made == IF d \in DOMAIN sets THEN sets
                ELSE (d :> [manifest |-> <<>>, files |-> {}]) @@ sets
        images_array == [i \in 1..Len(scales) |-> image_entry(base_name, ext, scales[i])]
        filled == [made EXCEPT ![d].files = @ \cup copied_files(base_name, ext)]
    IN IF <<"mkdir", base_name>> \in faults
       THEN [ok |-> FALSE, sets |-> sets, images |-> <<>>]
       ELSE IF <<"manifest", base_name>> \in faults
       THEN [ok |-> FALSE, sets |-> filled, images |-> <<>>]
       ELSE [ok |-> TRUE, sets |-> [filled EXCEPT ![d].manifest = images_array],
             images |-> images_array]

(***************************************************************************)
(* migrate_assets()                                                        *)
(***************************************************************************)
\* os.listdir: every entry of the directory, files and subdirectories
listdir == { n \in Names : exists(n) }

files == { f \in listdir : Lower(Suffix(f)) \in image_extensions }

strip_scale(stem) ==
    IF EndsWith(stem, <<"@", "2", "x">>) THEN SubSeq(stem, 1, Len(stem) - 3)
    ELSE IF EndsWith(stem, <<"@", "3", "x">>) THEN SubSeq(stem, 1, Len(stem) - 3)
    ELSE stem

group_of(filename) == << strip_scale(Stem(filename)), Suffix(filename) >>

discovered == { group_of(f) : f \in files }

Fail(op) ==
    /\ pc' = "return"
    /\ result' = FALSE
    /\ log' = Append(log, Event(op, NoGroup, FALSE, <<>>))

Pass(op, next) ==
    /\ pc' = next
    /\ log' = Append(log, Event(op, NoGroup, TRUE, <<>>))
    /\ UNCHANGED result

Validate ==
    /\ pc = "validate"
    /\ IF srcKind = "dir" THEN Pass("validate", "safe_rmtree") ELSE Fail("validate")
    /\ UNCHANGED <<envVars, tree, tree0, base_names, todo, all_success, exit_code,
                   run, prev>>

SafeRmtree ==
    /\ pc = "safe_rmtree"
    /\ IF ~tree.exists
       THEN Pass("safe_rmtree", "makedirs") /\ UNCHANGED tree
       ELSE IF ~safe_rmtree_guard(dest_dir, expected_parent)
       THEN Fail("safe_rmtree") /\ UNCHANGED tree
       ELSE IF <<"rmtree", <<>> >> \in faults
       THEN Fail("safe_rmtree") /\ tree' \in {tree, EmptyDir}
       ELSE Pass("safe_rmtree", "makedirs") /\ tree' = NoTree
    /\ UNCHANGED <<envVars, tree0, base_names, todo, all_success, exit_code, run, prev>>

MakeDest ==
    /\ pc = "makedirs"
    /\ IF <<"makedirs", <<>> >> \in faults
       THEN Fail("makedirs") /\ UNCHANGED tree
       ELSE Pass("makedirs", "root_json") /\ tree' = [tree EXCEPT !.exists = TRUE]
    /\ UNCHANGED <<envVars, tree0, base_names, todo, all_success, exit_code, run, prev>>

RootJson ==
    /\ pc = "root_json"
    /\ IF <<"root_json", <<>> >> \in faults
       THEN Fail("root_json") /\ UNCHANGED tree
       ELSE Pass("root_json", "listdir") /\ tree' = [tree EXCEPT !.root = TRUE]
    /\ UNCHANGED <<envVars, tree0, base_names, todo, all_success, exit_code, run, prev>>

\* the groups iterated in the order of the set, which differs from run to run
ListSourceAnyOrder ==
    /\ pc = "listdir"
    /\ IF <<"listdir", <<>> >> \in faults
       THEN Fail("listdir") /\ UNCHANGED <<base_names, todo, all_success>>
       ELSE /\ Pass("listdir", "build")
            /\ base_names' = discovered
            /\ todo' \in { q \in [1..Cardinality(discovered) -> discovered] :
                             \A i, j \in DOMAIN q : i # j => q[i] # q[j] }
            /\ all_success' = TRUE
    /\ UNCHANGED <<envVars, tree, tree0, exit_code, run, prev>>

ListSource ==
    /\ pc = "listdir"
    /\ IF <<"listdir", <<>> >> \in faults
       THEN Fail("listdir") /\ UNCHANGED <<base_names, todo, all_success>>
       ELSE /\ Pass("listdir", "build")
            /\ base_names' = discovered
            /\ todo' = sorted(discovered)
            /\ all_success' = TRUE
    /\ UNCHANGED <<envVars, tree, tree0, exit_code, run, prev>>

\* a loop that stops at the first group that fails
BuildStopAtFailure ==
    /\ pc = "build"
    /\ todo # <<>>
    /\ LET g == Head(todo)
           r == create_imageset(tree.sets, g[1], g[2])
       IN /\ tree' = [tree EXCEPT !.sets = r.sets]
          /\ all_success' = (all_success /\ r.ok)
          /\ log' = Append(log, Event("build", g, r.ok, r.images))
          /\ todo' = IF r.ok THEN Tail(todo) ELSE <<>>
    /\ UNCHANGED <<envVars, tree0, pc, base_names, result, exit_code, run, prev>>

Build ==
    /\ pc = "build"
    /\ todo # <<>>
    /\ LET g == Head(todo)
           r == create_imageset(tree.sets, g[1], g[2])
       IN /\ tree' = [tree EXCEPT !.sets = r.sets]
          /\ all_success' = (all_success /\ r.ok)
          /\ log' = Append(log, Event("build", g, r.ok, r.images))
          /\ todo' = Tail(todo)
    /\ UNCHANGED <<envVars, tree0, pc, base_names, result, exit_code, run, prev>>

Return ==
    /\ pc = "build"
    /\ todo = <<>>
    /\ result' = all_success
    /\ pc' = "return"
    /\ UNCHANGED <<envVars, tree, tree0, base_names, todo, all_success, exit_code, log,
                   run, prev>>

Exit ==
    /\ pc = "return"
    /\ exit_code' = IF result THEN 0 ELSE 1
    /\ pc' = "exit"
    /\ UNCHANGED <<envVars, tree, tree0, base_names, todo, all_success, result, log,
                   run, prev>>

\* the program is started again with the same arguments
RunAgain ==
    /\ pc = "exit"
    /\ run < MaxRuns
    /\ run' = run + 1
    /\ prev' = [tree |-> tree, result |-> result]
    /\ tree0' = tree
    /\ pc' = "validate"
    /\ base_names' = {}
    /\ todo' = <<>>
    /\ all_success' = TRUE
    /\ result' = FALSE
    /\ exit_code' = -1
    /\ log' = <<>>
    /\ UNCHANGED <<envVars, tree>>

(***************************************************************************)
(* Specifications                                                          *)
(***************************************************************************)
Sources == { f \in [Names -> Kinds \cup {"absent"}] :
                Cardinality({ n \in Names : f[n] # "absent" }) <= MaxEntries }

InitLocals ==
    /\ base_names = {}
    /\ todo = <<>>
    /\ all_success = TRUE
    /\ result = FALSE
    /\ exit_code = -1
    /\ log = <<>>
    /\ run = 1

\* migrate_assets is entered with the resolved paths
Init ==
    /\ argv = <<>>
    /\ environ = <<>>
    /\ source_dir = SourcePath
    /\ dest_dir \in DestPaths
    /\ srcKind \in {"absent", "file", "dir"}
    /\ src \in Sources
    /\ srcKind # "dir" => \A n \in Names : src[n] = "absent"
    /\ faults \in { F \in SUBSET FaultIds : Cardinality(F) <= MaxFaults }
    /\ tree \in {NoTree, StaleTree}
    /\ AlwaysExists(dest_dir) => tree.exists
    /\ tree0 = tree
    /\ prev = [tree |-> tree, result |-> FALSE]
    /\ pc = "validate"
    /\ InitLocals

Next ==
    \/ Validate
    \/ SafeRmtree
    \/ MakeDest
    \/ RootJson
    \/ ListSource
    \/ Build
    \/ Return
    \/ Exit
    \/ RunAgain

Spec == Init /\ [][Next]_vars

\* main() is entered with a command line and an environment
InitMain ==
    /\ argv \in { <<>> } \cup { <<p>> : p \in PathPool }
                \cup { <<p, q>> : p \in PathPool, q \in PathPool }
    /\ environ \in UNION { [D -> EnvValues] : D \in SUBSET EnvNames }
    /\ source_dir = <<>>
    /\ dest_dir = <<>>
    /\ srcKind = "dir"
    /\ src = [n \in Names |-> "absent"]
    /\ faults = {}
    /\ tree = NoTree
    /\ tree0 = NoTree
    /\ prev = [tree |-> NoTree, result |-> FALSE]
    /\ pc = "main"
    /\ InitLocals

NextMain == Main

SpecMain == InitMain /\ [][NextMain]_vars

(***************************************************************************)
(* Vocabulary of the properties                                            *)
(***************************************************************************)
Returned == pc \in {"return", "exit"}

BuildEvents == { i \in 1..Len(log) : log[i].op = "build" }

StepOk(op) == \E i \in 1..Len(log) : log[i].op = op /\ log[i].ok

StepFailed(op) == \E i \in 1..Len(log) : log[i].op = op /\ ~log[i].ok

\* the resolved path is neither the expected parent nor below it
OutsideParent(p) ==
    LET r == Resolve(p)
        e == Resolve(expected_parent)
    IN Len(r) < Len(e) \/ SubSeq(r, 1, Len(e)) # e

IsRoot(p) == Resolve(p) = <<"/">>

\* name.ext for 1x, name@2x.ext and name@3x.ext for the other scales
ExpectedFile(g, i) ==
    CASE i = 1 -> g[1] \o g[2]
      [] i = 2 -> g[1] \o <<"@", "2", "x">> \o g[2]
      [] i = 3 -> g[1] \o <<"@", "3", "x">> \o g[2]

\* a copy of an existing variant of the group fails
CopyFails(g) == \E i \in 1..3 : SrcKindOf(ExpectedFile(g, i)) \in {"noread", "dir"}

Listed(manifest) ==
    { manifest[i].filename : i \in { j \in 1..Len(manifest) : manifest[j].filename # NoFilename } }

(***************************************************************************)
(* C1: the original statement.  With a valid source and a destination that *)
(* is the root or resolves outside the expected parent, migrate returns    *)
(* failure and neither deletes nor writes anything at the destination,     *)
(* whether the destination exists or not.                                  *)
(***************************************************************************)
C1_Original ==
    (srcKind = "dir" /\ (IsRoot(dest_dir) \/ OutsideParent(dest_dir)))
        => /\ tree = tree0
           /\ Returned => ~result

(***************************************************************************)
(* C1: as amended.  With a valid source and an EXISTING destination that   *)
(* is the root or resolves outside the expected parent, migrate returns    *)
(* failure and the destination tree stays as it was when the run started.  *)
(* A destination that does not exist is never refused.                     *)
(***************************************************************************)
C1_GuardedDelete ==
    /\ (srcKind = "dir" /\ tree0.exists /\ (IsRoot(dest_dir) \/ OutsideParent(dest_dir)))
          => /\ tree = tree0
             /\ Returned => ~result
             /\ pc \notin {"makedirs", "root_json", "listdir", "build"}
    /\ ~tree0.exists => ~StepFailed("safe_rmtree")

C1_Witness ==
    /\ srcKind = "dir" /\ tree0.exists /\ tree0.stale
    /\ OutsideParent(dest_dir) /\ ~IsRoot(dest_dir)
    /\ pc = "return" /\ StepFailed("safe_rmtree")

(***************************************************************************)
(* C2: once the destination has been reset and the source listed, every    *)
(* discovered group is handed to the builder, also after a group that      *)
(* failed; migrate returns true exactly when the source validation, the    *)
(* guarded delete, the creation of the destination, the root manifest, the *)
(* listing and the build of every group succeeded.                         *)
(***************************************************************************)
C2_AllGroupsBuilt ==
    Returned =>
      /\ StepOk("listdir") =>
            /\ { log[i].group : i \in BuildEvents } = discovered
            /\ Cardinality(BuildEvents) = Cardinality(discovered)
      /\ result <=>
            /\ StepOk("validate") /\ StepOk("safe_rmtree") /\ StepOk("makedirs")
            /\ StepOk("root_json") /\ StepOk("listdir")
            /\ \A g \in discovered : \E i \in BuildEvents : log[i].group = g /\ log[i].ok
            /\ \A i \in 1..Len(log) : log[i].ok

C2_Witness ==
    /\ pc = "return" /\ ~result
    /\ \E i, j \in BuildEvents : i < j /\ ~log[i].ok /\ log[j].ok

(***************************************************************************)
(* C3: the original statement.  When the copy of an existing variant       *)
(* fails, the run ends with a non-zero exit code.                          *)
(***************************************************************************)
C3_Original ==
    (pc = "exit" /\ \E i \in BuildEvents : log[i].ok /\ CopyFails(log[i].group))
        => exit_code # 0

(***************************************************************************)
(* C3: as amended.  When the copy of an existing variant fails, the        *)
(* manifest of the group is still written with the entry of that variant   *)
(* lacking a filename, every other group is built as it is built alone,    *)
(* and the exit code is 0 exactly when migrate returned true: a copy       *)
(* failure alone leaves the exit code 0.                                   *)
(***************************************************************************)
C3_CopyFailure ==
    pc = "exit" =>
      /\ exit_code = (IF result THEN 0 ELSE 1)
      /\ \A i \in BuildEvents :
            LET g == log[i].group
                fault == <<"mkdir", g[1]>> \in faults \/ <<"manifest", g[1]>> \in faults
            IN /\ log[i].ok <=> ~fault
               /\ log[i].ok =>
                    /\ tree.sets[imageset_dir(g[1])].manifest # <<>>
                    /\ \A k \in 1..3 :
                          SrcKindOf(ExpectedFile(g, k)) \in {"noread", "dir"}
                              => log[i].images[k].filename = NoFilename
               /\ log[i].images = create_imageset(<<>>, g[1], g[2]).images
      /\ (StepOk("listdir") /\ \A b \in Bases :
              <<"mkdir", b>> \notin faults /\ <<"manifest", b>> \notin faults)
            => exit_code = 0

C3_Witness ==
    /\ pc = "exit" /\ exit_code = 0
    /\ Cardinality(BuildEvents) >= 2
    /\ \E i \in BuildEvents :
          /\ SrcKindOf(ExpectedFile(log[i].group, 1)) = "noread"
          /\ log[i].images[1].filename = NoFilename

(***************************************************************************)
(* C4: each of the two paths is the positional argument when given,        *)
(* otherwise the environment variable when set, otherwise the default.     *)
(***************************************************************************)
Precedence(args, env, key, position, default) ==
    IF Len(args) >= position THEN Path(args[position])
    ELSE IF key \in DOMAIN env THEN Path(env[key])
    ELSE default

C4_Precedence ==
    pc = "resolved" =>
      /\ source_dir = Precedence(argv, environ, "ASSET_SOURCE_DIR", 1, get_default_paths[1])
      /\ dest_dir = Precedence(argv, environ, "ASSET_DEST_DIR", 2, get_default_paths[2])

(***************************************************************************)
(* C5: every discovered group, and every imageset of the destination,      *)
(* comes from a regular file of the source directory with an image         *)
(* extension; a subdirectory never produces one.                           *)
(***************************************************************************)
RegularImages ==
    { n \in Names : src[n] \in {"file", "noread"} /\ Lower(Suffix(n)) \in image_extensions }

C5_OnlyRegularFiles ==
    /\ \A g \in base_names : \E n \in RegularImages : group_of(n) = g
    /\ \A d \in DOMAIN tree.sets :
          \E n \in RegularImages : imageset_dir(group_of(n)[1]) = d

(***************************************************************************)
(* C6: the original statement, in an environment where no OS call fails.   *)
(* A second run with the same arguments on the unchanged source ends with  *)
(* the tree and the return value of the first.                             *)
(***************************************************************************)
C6_Original ==
    (run > 1 /\ Returned /\ faults = {}) => (tree = prev.tree /\ result = prev.result)

(***************************************************************************)
(* C6: as amended.  A second run ends with the tree and the return value   *)
(* of the first unless its guarded delete is refused or fails; when the    *)
(* guard refuses (the destination is the root or outside the expected      *)
(* parent) the tree is still the tree of the first run, only the return    *)
(* value is false.                                                         *)
(***************************************************************************)
C6_Idempotent ==
    (run > 1 /\ Returned) =>
      /\ ~StepFailed("safe_rmtree") => (tree = prev.tree /\ result = prev.result)
      /\ (StepFailed("safe_rmtree") /\ <<"rmtree", <<>> >> \notin faults)
            => (tree = prev.tree /\ ~result)

C6_Witness ==
    /\ run > 1 /\ pc = "return" /\ result
    /\ Cardinality(DOMAIN tree.sets) >= 1
    /\ Cardinality(BuildEvents) > Cardinality(DOMAIN tree.sets)
    /\ tree = prev.tree

(***************************************************************************)
(* C7: every discovered group that was built has an imageset directory of  *)
(* its own, shared with no other group, holding a manifest and at most     *)
(* three image files.                                                      *)
(***************************************************************************)
C7_OwnDirectory ==
    Returned =>
      \A i \in BuildEvents :
        log[i].ok =>
          LET g == log[i].group
              d == imageset_dir(g[1])
          IN /\ d \in DOMAIN tree.sets
             /\ tree.sets[d].manifest # <<>>
             /\ Cardinality(tree.sets[d].files) <= 3
             /\ \A j \in BuildEvents \ {i} : imageset_dir(log[j].group[1]) # d

(***************************************************************************)
(* C8: every manifest the builder writes has the three entries 1x, 2x, 3x  *)
(* in that order, each with idiom "universal"; an entry has a filename     *)
(* exactly when the expected source file exists and its copy succeeded;    *)
(* the builder returns false only when the creation of the directory or    *)
(* the write of the manifest failed.                                       *)
(***************************************************************************)
C8_Manifest ==
    \A i \in BuildEvents :
      LET g == log[i].group
          m == log[i].images
      IN /\ log[i].ok =>
              /\ Len(m) = 3
              /\ m[1].scale = <<"1", "x">> /\ m[2].scale = <<"2", "x">>
              /\ m[3].scale = <<"3", "x">>
              /\ \A k \in 1..3 :
                    /\ m[k].idiom = "universal"
                    /\ m[k].filename # NoFilename <=> SrcKindOf(ExpectedFile(g, k)) = "file"
                    /\ m[k].filename # NoFilename => m[k].filename = ExpectedFile(g, k)
         /\ ~log[i].ok =>
              (<<"mkdir", g[1]>> \in faults \/ <<"manifest", g[1]>> \in faults)

C8_Witness ==
    \E i \in BuildEvents :
      /\ log[i].ok
      /\ log[i].images[1].filename # NoFilename
      /\ log[i].images[2].filename = NoFilename
      /\ SrcKindOf(ExpectedFile(log[i].group, 2)) = "noread"
      /\ SrcKindOf(ExpectedFile(log[i].group, 3)) = "absent"

(***************************************************************************)
(* C9: the groups are built one after another in the lexicographic order   *)
(* of (base_name, extension), each discovered group once.                  *)
(***************************************************************************)
C9_BuildOrder ==
    /\ \A i, j \in BuildEvents : i < j => TupleLess(log[i].group, log[j].group)
    /\ (Returned /\ StepOk("listdir")) =>
          \A g \in discovered : Cardinality({ i \in BuildEvents : log[i].group = g }) = 1

C9_Witness ==
    /\ pc = "return"
    /\ \E i, j \in BuildEvents :
          /\ i < j
          /\ log[i].group[1] = <<"B">>
          /\ log[j].group[1] = <<"a">>
    /\ Cardinality(BuildEvents) = 3

(***************************************************************************)
(* C10: after migrate returned true, the image files of every imageset     *)
(* directory are exactly the filenames its manifest lists.                 *)
(***************************************************************************)
C10_FilesListed ==
    (Returned /\ result) =>
      \A d \in DOMAIN tree.sets : tree.sets[d].files = Listed(tree.sets[d].manifest)
====
